---- MODULE Spec2Model ----
(***************************************************************************)
(* Model of the .sqs command-language parser of vscode-sqsclient            *)
(* (parseSQSCommands / finalizeCommand).                                    *)
(*                                                                          *)
(* A document is a sequence of lines, a line a sequence of lexical tokens.  *)
(* The token "_" is a run of white space; every other token is a run of     *)
(* non-blank characters.  Strings of the program (profile, region, queue    *)
(* URL) are token sequences, so that trimming, the regular expressions,     *)
(* the brace count and JSON.parse are computed on the text of the line.     *)
(* Line indices are 0-based as in the source: line i is lines[i + 1].       *)
(***************************************************************************)
EXTENDS Integers, Sequences, FiniteSets, TLC

VARIABLES
    lines,                \* text.split('\n')
    cfgProfile,           \* configuration value sqs-client.defaultProfile
    cfgRegion,            \* configuration value sqs-client.defaultRegion
    pc,                   \* "loop" while the for loop runs, "done" at return
    i,                    \* loop index
    commands,             \* output list
    currentCommand,       \* command under construction, or Null
    commandBodyStartLine,
    commandBodyLines,
    inJsonBody,
    jsonStartLine,
    bracesCount,
    returned,             \* the calls that have returned: arguments and result
    languageId,           \* document.languageId
    codeLenses,           \* what provideCodeLenses returned, once it has
    symbols,              \* what provideDocumentSymbols returned, once it has
    runs,                 \* the command handlers started, one record each
    awsConfig             \* AWS.config, global of the extension host

extensionVars == <<languageId, codeLenses, symbols, runs, awsConfig>>

vars == <<lines, cfgProfile, cfgRegion, pc, i, commands, currentCommand,
          commandBodyStartLine, commandBodyLines, inJsonBody, jsonStartLine,
          bracesCount, returned, extensionVars>>

----------------------------------------------------------------------------
(* Bounds                                                                   *)

MaxLines == 4
MaxParamLines == 4
MaxJsonLines == 5
MaxTotalLines == 4
MaxCalls == 3
MaxRunLines == 3
MaxBodyLines == 4
MaxRepeatLines == 4
MaxBlockLines == 5
MaxOutlineLines == 4
MaxRuns == 2

----------------------------------------------------------------------------
(* Lexical level                                                            *)

WS == "_"

\* Tokens whose first character is '#'.
HashTokens == {"#", "###", "#note"}

\* Tokens made of decimal digits only, with their parseInt(_, 10) value.
DigitTokens == {"0", "3", "5"}

ParseInt(t) ==
    CASE t = "0" -> 0
      [] t = "3" -> 3
      [] t = "5" -> 5

\* JSON string literals and number literals that occur in documents.
JsonStrings == {"\"x\"", "\"y\"", "\"}\"", "\"{\""}
JsonNumbers == {"1", "2"}

\* Number of '{' (resp. '}') characters in a token.
OpenBraces(t) == IF t \in {"{", "\"{\""} THEN 1 ELSE 0
CloseBraces(t) == IF t \in {"}", "\"}\""} THEN 1 ELSE 0

RECURSIVE TrimStart(_)
TrimStart(l) ==
    IF l # <<>> /\ Head(l) = WS THEN TrimStart(Tail(l)) ELSE l

RECURSIVE TrimEnd(_)
TrimEnd(l) ==
    IF l # <<>> /\ l[Len(l)] = WS THEN TrimEnd(SubSeq(l, 1, Len(l) - 1)) ELSE l

\* String.prototype.trim
Trim(l) == TrimEnd(TrimStart(l))

\* line.startsWith('#') and line.startsWith('{')
StartsWithHash(line) == line # <<>> /\ Head(line) \in HashTokens
StartsWithBrace(line) == line # <<>> /\ Head(line) = "{"

\* the skip test for empty lines only
IsSkippedBlankOnly(line) == line = <<>>

\* line === '' || line.startsWith('#')
IsSkipped(line) == line = <<>> \/ StartsWithHash(line)

\* line === '###'
IsDelimiter(line) == line = <<"###">>

----------------------------------------------------------------------------
(* Regular expressions.  Each Match operator is the test, each Capture      *)
(* operator the capture group of a successful match.                        *)

CommandTypes == {"SEND", "RECEIVE", "PURGE"}

RECURSIVE NonBlankRun(_)
NonBlankRun(l) ==
    IF l = <<>> \/ Head(l) = WS THEN <<>> ELSE <<Head(l)>> \o NonBlankRun(Tail(l))

\* the header pattern with the i flag
CommandBlockMatchAnyCase(line) ==
    /\ Len(line) >= 3
    /\ line[1] \in CommandTypes \cup {"send", "receive", "purge"}
    /\ line[2] = WS

\* /^(SEND|RECEIVE|PURGE)\s+([^\s]+)/
CommandBlockMatch(line) ==
    /\ Len(line) >= 3
    /\ line[1] \in CommandTypes
    /\ line[2] = WS
CommandBlockType(line) == line[1]
CommandBlockUrl(line) == NonBlankRun(SubSeq(line, 3, Len(line)))

\* The text after /^key\s*:\s*/ when the line starts that way, else <<>>.
AfterKey(key, line) ==
    IF line = <<>> \/ Head(line) # key THEN <<>>
    ELSE LET a == TrimStart(Tail(line))
         IN IF a = <<>> \/ Head(a) # ":" THEN <<>> ELSE TrimStart(Tail(a))

\* /^profile\s*:\s*(.+)$/ and /^region\s*:\s*(.+)$/
ProfileMatch(line) == AfterKey("profile", line) # <<>>
ProfileValue(line) == Trim(AfterKey("profile", line))
RegionMatch(line) == AfterKey("region", line) # <<>>
RegionValue(line) == Trim(AfterKey("region", line))

\* /^key\s*:\s*(\d+)$/
NumberMatch(key, line) ==
    LET v == AfterKey(key, line) IN Len(v) = 1 /\ v[1] \in DigitTokens
NumberValue(key, line) == ParseInt(AfterKey(key, line)[1])

MaxMessagesMatch(line) == NumberMatch("max-messages", line)
VisibilityTimeoutMatch(line) == NumberMatch("visibility-timeout", line)
WaitTimeMatch(line) == NumberMatch("wait-time", line)

----------------------------------------------------------------------------
(* JSON.parse on the joined body lines                                      *)

RECURSIVE Flatten(_)
\* bodyLines.join('\n'), white space dropped: the tokens of the JSON text
Flatten(ls) ==
    IF ls = <<>> THEN <<>>
    ELSE SelectSeq(Head(ls), LAMBDA t : t # WS) \o Flatten(Tail(ls))

RECURSIVE JsonValueEnd(_, _)
RECURSIVE JsonMembersEnd(_, _)

\* Position after the JSON value that starts at t[p], 0 if there is none.
JsonValueEnd(t, p) ==
    IF p > Len(t) THEN 0
    ELSE IF t[p] \in JsonStrings \cup JsonNumbers THEN p + 1
    ELSE IF t[p] = "{"
         THEN IF p + 1 <= Len(t) /\ t[p + 1] = "}" THEN p + 2
              ELSE JsonMembersEnd(t, p + 1)
    ELSE 0

\* Position after `"k": value (, "k": value)* }` starting at t[p], 0 if none.
JsonMembersEnd(t, p) ==
    IF p + 1 > Len(t) \/ t[p] \notin JsonStrings \/ t[p + 1] # ":" THEN 0
    ELSE LET q == JsonValueEnd(t, p + 2)
         IN IF q = 0 \/ q > Len(t) THEN 0
            ELSE IF t[q] = "}" THEN q + 1
            ELSE IF t[q] = "," THEN JsonMembersEnd(t, q + 1)
            ELSE 0

\* JSON.parse succeeds
JsonValid(t) == t # <<>> /\ JsonValueEnd(t, 1) = Len(t) + 1

\* The value JSON.parse returns: the text without its white space.
NoBody == <<>>
JsonParse(bodyLines) ==
    LET t == Flatten(bodyLines) IN IF JsonValid(t) THEN t ELSE NoBody

----------------------------------------------------------------------------
(* Commands                                                                 *)

Null == [null |-> TRUE]
Undefined == -1
NoRange == [start |-> -1, end |-> -1]

\* vscode.workspace.getConfiguration('sqs-client').get(key): a string or
\* undefined.
Unset == [defined |-> FALSE, value |-> <<>>]
Setting(v) == [defined |-> TRUE, value |-> v]

\* get(key) with the fallback forgotten
OrDefaultDropped(setting, fallback) == setting.value

\* get(key) || fallback
OrDefault(setting, fallback) ==
    IF setting.defined /\ setting.value # <<>> THEN setting.value ELSE fallback

\* the object literal with an empty attribute map
NewCommandWithAttributes(commandType, queueUrl, cp, cr) ==
    [type |-> commandType,
     queueUrl |-> queueUrl,
     profile |-> OrDefault(cp, <<"default">>),
     region |-> OrDefault(cr, <<"us-east-1">>),
     messageBody |-> NoBody,
     messageAttributes |-> <<"{", "}">>,
     maxMessages |-> Undefined,
     visibilityTimeout |-> Undefined,
     waitTimeSeconds |-> Undefined,
     range |-> NoRange]

\* the object literal of a new command
NewCommand(commandType, queueUrl, cp, cr) ==
    [type |-> commandType,
     queueUrl |-> queueUrl,
     profile |-> OrDefault(cp, <<"default">>),
     region |-> OrDefault(cr, <<"us-east-1">>),
     messageBody |-> NoBody,
     messageAttributes |-> NoBody,
     maxMessages |-> Undefined,
     visibilityTimeout |-> Undefined,
     waitTimeSeconds |-> Undefined,
     range |-> NoRange]

\* currentCommand && currentCommand.type && currentCommand.queueUrl
IsComplete(c) == c # Null /\ c.type # "" /\ c.queueUrl # <<>>

\* finalizeCommand parsing the body lines whether or not a body is set
finalizeCommandReparses(command, startLine, endLine, bodyLines) ==
    LET ranged == [command EXCEPT !.range = [start |-> startLine, end |-> endLine]]
    IN IF command.type = "SEND" /\ Len(bodyLines) > 0
       THEN [ranged EXCEPT !.messageBody = JsonParse(bodyLines)]
       ELSE ranged

\* finalizeCommand keeping the unparsed text when JSON.parse throws
finalizeCommandKeepsText(command, startLine, endLine, bodyLines) ==
    LET ranged == [command EXCEPT !.range = [start |-> startLine, end |-> endLine]]
    IN IF command.type = "SEND" /\ command.messageBody = NoBody /\ Len(bodyLines) > 0
       THEN [ranged EXCEPT !.messageBody = Flatten(bodyLines)]
       ELSE ranged

finalizeCommand(command, startLine, endLine, bodyLines) ==
    LET ranged == [command EXCEPT !.range = [start |-> startLine, end |-> endLine]]
    IN IF command.type = "SEND" /\ command.messageBody = NoBody /\ Len(bodyLines) > 0
       THEN [ranged EXCEPT !.messageBody = JsonParse(bodyLines)]
       ELSE ranged

----------------------------------------------------------------------------
(* The scanner: the local variables of parseSQSCommands as one record, and  *)
(* the branches of the loop body as functions of it.                        *)

InitScanner ==
    [commands |-> <<>>,
     currentCommand |-> Null,
     commandBodyStartLine |-> -1,
     commandBodyLines |-> <<>>,
     inJsonBody |-> FALSE,
     jsonStartLine |-> -1,
     bracesCount |-> 0]

\* the header branch with unshift in place of push
OnHeaderUnshift(s, idx, line, cp, cr) ==
    LET sealing == IsComplete(s.currentCommand)
        sealed == finalizeCommand(s.currentCommand, s.commandBodyStartLine,
                                  idx - 1, s.commandBodyLines)
    IN [s EXCEPT
          !.commands = IF sealing THEN <<sealed>> \o @ ELSE @,
          !.commandBodyLines = IF sealing THEN <<>> ELSE @,
          !.currentCommand = NewCommand(CommandBlockType(line),
                                        CommandBlockUrl(line), cp, cr),
          !.commandBodyStartLine = idx,
          !.inJsonBody = FALSE,
          !.jsonStartLine = -1]

\* the header branch with the new command inheriting profile and region of
\* the command it follows
OnHeaderInherits(s, idx, line, cp, cr) ==
    LET sealing == IsComplete(s.currentCommand)
        sealed == finalizeCommand(s.currentCommand, s.commandBodyStartLine,
                                  idx - 1, s.commandBodyLines)
        fresh == NewCommand(CommandBlockType(line), CommandBlockUrl(line), cp, cr)
    IN [s EXCEPT
          !.commands = IF sealing THEN Append(@, sealed) ELSE @,
          !.commandBodyLines = IF sealing THEN <<>> ELSE @,
          !.currentCommand =
              IF sealing
              THEN [fresh EXCEPT !.profile = s.currentCommand.profile,
                                 !.region = s.currentCommand.region]
              ELSE fresh,
          !.commandBodyStartLine = idx,
          !.inJsonBody = FALSE,
          !.jsonStartLine = -1]

\* the header branch sealing with the header line as end line
OnHeaderEndsOnHeader(s, idx, line, cp, cr) ==
    LET sealing == IsComplete(s.currentCommand)
        sealed == finalizeCommand(s.currentCommand, s.commandBodyStartLine,
                                  idx, s.commandBodyLines)
    IN [s EXCEPT
          !.commands = IF sealing THEN Append(@, sealed) ELSE @,
          !.commandBodyLines = IF sealing THEN <<>> ELSE @,
          !.currentCommand = NewCommand(CommandBlockType(line),
                                        CommandBlockUrl(line), cp, cr),
          !.commandBodyStartLine = idx,
          !.inJsonBody = FALSE,
          !.jsonStartLine = -1]

\* the header branch without commands.push
OnHeaderDropsOpen(s, idx, line, cp, cr) ==
    [s EXCEPT
       !.commandBodyLines = IF IsComplete(s.currentCommand) THEN <<>> ELSE @,
       !.currentCommand = NewCommand(CommandBlockType(line),
                                     CommandBlockUrl(line), cp, cr),
       !.commandBodyStartLine = idx,
       !.inJsonBody = FALSE,
       !.jsonStartLine = -1]

\* the header branch without commandBodyLines = []
OnHeaderKeepsBody(s, idx, line, cp, cr) ==
    LET sealing == IsComplete(s.currentCommand)
        sealed == finalizeCommand(s.currentCommand, s.commandBodyStartLine,
                                  idx - 1, s.commandBodyLines)
    IN [s EXCEPT
          !.commands = IF sealing THEN Append(@, sealed) ELSE @,
          !.currentCommand = NewCommand(CommandBlockType(line),
                                        CommandBlockUrl(line), cp, cr),
          !.commandBodyStartLine = idx,
          !.inJsonBody = FALSE,
          !.jsonStartLine = -1]

\* if (commandMatch) { ... }
OnHeader(s, idx, line, cp, cr) ==
    LET sealing == IsComplete(s.currentCommand)
        sealed == finalizeCommand(s.currentCommand, s.commandBodyStartLine,
                                  idx - 1, s.commandBodyLines)
    IN [s EXCEPT
          !.commands = IF sealing THEN Append(@, sealed) ELSE @,
          !.commandBodyLines = IF sealing THEN <<>> ELSE @,
          !.currentCommand = NewCommand(CommandBlockType(line),
                                        CommandBlockUrl(line), cp, cr),
          !.commandBodyStartLine = idx,
          !.inJsonBody = FALSE,
          !.jsonStartLine = -1]

\* the '###' branch
OnDelimiter(s, idx) ==
    LET sealing == IsComplete(s.currentCommand)
        sealed == finalizeCommand(s.currentCommand, s.commandBodyStartLine,
                                  idx, s.commandBodyLines)
    IN [s EXCEPT
          !.commands = IF sealing THEN Append(@, sealed) ELSE @,
          !.commandBodyLines = IF sealing THEN <<>> ELSE @,
          !.currentCommand = Null,
          !.commandBodyStartLine = -1,
          !.inJsonBody = FALSE,
          !.jsonStartLine = -1]

\* the line starts a JSON body
OnJsonStart(s, idx, line) ==
    [s EXCEPT
       !.inJsonBody = TRUE,
       !.jsonStartLine = idx,
       !.bracesCount = 1,
       !.commandBodyLines = Append(@, line)]

\* the parameter branch without the test of the command type
OnCommandLineAnyType(s, idx, line) ==
    IF ProfileMatch(line)
    THEN [s EXCEPT !.currentCommand.profile = ProfileValue(line)]
    ELSE IF RegionMatch(line)
    THEN [s EXCEPT !.currentCommand.region = RegionValue(line)]
    ELSE IF MaxMessagesMatch(line)
    THEN [s EXCEPT !.currentCommand.maxMessages = NumberValue("max-messages", line)]
    ELSE IF VisibilityTimeoutMatch(line)
    THEN [s EXCEPT !.currentCommand.visibilityTimeout =
                       NumberValue("visibility-timeout", line)]
    ELSE IF WaitTimeMatch(line)
    THEN [s EXCEPT !.currentCommand.waitTimeSeconds = NumberValue("wait-time", line)]
    ELSE IF s.currentCommand.type = "SEND" /\ StartsWithBrace(line)
    THEN OnJsonStart(s, idx, line)
    ELSE IF IsDelimiter(line)
    THEN OnDelimiter(s, idx)
    ELSE s

\* the parameter branch keeping the first max-messages value
OnCommandLineFirstWins(s, idx, line) ==
    IF ProfileMatch(line)
    THEN [s EXCEPT !.currentCommand.profile = ProfileValue(line)]
    ELSE IF RegionMatch(line)
    THEN [s EXCEPT !.currentCommand.region = RegionValue(line)]
    ELSE IF s.currentCommand.type = "RECEIVE" /\ MaxMessagesMatch(line)
    THEN [s EXCEPT !.currentCommand.maxMessages =
                       IF @ = Undefined THEN NumberValue("max-messages", line) ELSE @]
    ELSE IF s.currentCommand.type = "RECEIVE" /\ VisibilityTimeoutMatch(line)
    THEN [s EXCEPT !.currentCommand.visibilityTimeout =
                       NumberValue("visibility-timeout", line)]
    ELSE IF s.currentCommand.type = "RECEIVE" /\ WaitTimeMatch(line)
    THEN [s EXCEPT !.currentCommand.waitTimeSeconds = NumberValue("wait-time", line)]
    ELSE IF s.currentCommand.type = "SEND" /\ StartsWithBrace(line)
    THEN OnJsonStart(s, idx, line)
    ELSE IF IsDelimiter(line)
    THEN OnDelimiter(s, idx)
    ELSE s

\* the parameter branch starting a JSON body under a command of any type
OnCommandLineAnyBody(s, idx, line) ==
    IF ProfileMatch(line)
    THEN [s EXCEPT !.currentCommand.profile = ProfileValue(line)]
    ELSE IF RegionMatch(line)
    THEN [s EXCEPT !.currentCommand.region = RegionValue(line)]
    ELSE IF s.currentCommand.type = "RECEIVE" /\ MaxMessagesMatch(line)
    THEN [s EXCEPT !.currentCommand.maxMessages = NumberValue("max-messages", line)]
    ELSE IF s.currentCommand.type = "RECEIVE" /\ VisibilityTimeoutMatch(line)
    THEN [s EXCEPT !.currentCommand.visibilityTimeout =
                       NumberValue("visibility-timeout", line)]
    ELSE IF s.currentCommand.type = "RECEIVE" /\ WaitTimeMatch(line)
    THEN [s EXCEPT !.currentCommand.waitTimeSeconds = NumberValue("wait-time", line)]
    ELSE IF StartsWithBrace(line)
    THEN OnJsonStart(s, idx, line)
    ELSE IF IsDelimiter(line)
    THEN OnDelimiter(s, idx)
    ELSE s

\* else if (currentCommand && !inJsonBody) { ... }
OnCommandLine(s, idx, line) ==
    IF ProfileMatch(line)
    THEN [s EXCEPT !.currentCommand.profile = ProfileValue(line)]
    ELSE IF RegionMatch(line)
    THEN [s EXCEPT !.currentCommand.region = RegionValue(line)]
    ELSE IF s.currentCommand.type = "RECEIVE" /\ MaxMessagesMatch(line)
    THEN [s EXCEPT !.currentCommand.maxMessages = NumberValue("max-messages", line)]
    ELSE IF s.currentCommand.type = "RECEIVE" /\ VisibilityTimeoutMatch(line)
    THEN [s EXCEPT !.currentCommand.visibilityTimeout =
                       NumberValue("visibility-timeout", line)]
    ELSE IF s.currentCommand.type = "RECEIVE" /\ WaitTimeMatch(line)
    THEN [s EXCEPT !.currentCommand.waitTimeSeconds = NumberValue("wait-time", line)]
    ELSE IF s.currentCommand.type = "SEND" /\ StartsWithBrace(line)
    THEN OnJsonStart(s, idx, line)
    ELSE IF IsDelimiter(line)
    THEN OnDelimiter(s, idx)
    ELSE s

RECURSIVE BraceDelta(_)
\* the net effect of the character loop on bracesCount
BraceDelta(line) ==
    IF line = <<>> THEN 0
    ELSE OpenBraces(Head(line)) - CloseBraces(Head(line)) + BraceDelta(Tail(line))

\* the JSON body branch emitting the command when the body closes
OnJsonBodyLineSeals(s, line) ==
    LET bodyLines == Append(s.commandBodyLines, line)
        count == s.bracesCount + BraceDelta(line)
        closed == count = 0
        sealed == finalizeCommand(s.currentCommand, s.commandBodyStartLine,
                                  s.jsonStartLine, bodyLines)
    IN [s EXCEPT
          !.commandBodyLines = IF closed THEN <<>> ELSE bodyLines,
          !.bracesCount = count,
          !.inJsonBody = IF closed THEN FALSE ELSE @,
          !.commands = IF closed THEN Append(@, sealed) ELSE @,
          !.currentCommand = IF closed THEN Null ELSE @]

\* the JSON body branch assigning the outcome of the parse even when it fails
OnJsonBodyLineClears(s, line) ==
    LET bodyLines == Append(s.commandBodyLines, line)
        count == s.bracesCount + BraceDelta(line)
        closed == count = 0
        parsing == closed /\ s.currentCommand # Null /\ s.currentCommand.type = "SEND"
        parsed == JsonParse(bodyLines)
    IN [s EXCEPT
          !.commandBodyLines = bodyLines,
          !.bracesCount = count,
          !.inJsonBody = IF closed THEN FALSE ELSE @,
          !.currentCommand =
              IF parsing THEN [@ EXCEPT !.messageBody = parsed] ELSE @]

\* else if (inJsonBody) { ... }
OnJsonBodyLine(s, line) ==
    LET bodyLines == Append(s.commandBodyLines, line)
        count == s.bracesCount + BraceDelta(line)
        closed == count = 0
        parsing == closed /\ s.currentCommand # Null /\ s.currentCommand.type = "SEND"
        parsed == JsonParse(bodyLines)
    IN [s EXCEPT
          !.commandBodyLines = bodyLines,
          !.bracesCount = count,
          !.inJsonBody = IF closed THEN FALSE ELSE @,
          !.currentCommand =
              IF parsing /\ parsed # NoBody THEN [@ EXCEPT !.messageBody = parsed] ELSE @]

\* the code after the loop with lines.length as the end line
OnEndOfDocumentPastEnd(s, lineCount) ==
    IF IsComplete(s.currentCommand)
    THEN [s EXCEPT !.commands =
             Append(@, finalizeCommand(s.currentCommand, s.commandBodyStartLine,
                                       lineCount, s.commandBodyLines))]
    ELSE s

\* the code after the loop
OnEndOfDocument(s, lineCount) ==
    IF IsComplete(s.currentCommand)
    THEN [s EXCEPT !.commands =
             Append(@, finalizeCommand(s.currentCommand, s.commandBodyStartLine,
                                       lineCount - 1, s.commandBodyLines))]
    ELSE s

\* one iteration of the for loop on line idx
LoopBody(s, idx, raw, cp, cr) ==
    LET line == Trim(raw)
    IN IF IsSkipped(line) THEN s
       ELSE IF CommandBlockMatch(line) THEN OnHeader(s, idx, line, cp, cr)
       ELSE IF s.currentCommand # Null /\ ~s.inJsonBody THEN OnCommandLine(s, idx, line)
       ELSE IF s.inJsonBody THEN OnJsonBodyLine(s, line)
       ELSE s

RECURSIVE ScanPrefix(_, _, _, _)
\* the scanner after the first n lines of doc
ScanPrefix(doc, n, cp, cr) ==
    IF n = 0 THEN InitScanner
    ELSE LoopBody(ScanPrefix(doc, n - 1, cp, cr), n - 1, doc[n], cp, cr)

\* parseSQSCommands as a function of the text and the configuration
parseSQSCommands(doc, cp, cr) ==
    OnEndOfDocument(ScanPrefix(doc, Len(doc), cp, cr), Len(doc)).commands

----------------------------------------------------------------------------
(* The state machine                                                        *)

Scanner ==
    [commands |-> commands,
     currentCommand |-> currentCommand,
     commandBodyStartLine |-> commandBodyStartLine,
     commandBodyLines |-> commandBodyLines,
     inJsonBody |-> inJsonBody,
     jsonStartLine |-> jsonStartLine,
     bracesCount |-> bracesCount]

Assign(s) ==
    /\ commands' = s.commands
    /\ currentCommand' = s.currentCommand
    /\ commandBodyStartLine' = s.commandBodyStartLine
    /\ commandBodyLines' = s.commandBodyLines
    /\ inJsonBody' = s.inJsonBody
    /\ jsonStartLine' = s.jsonStartLine
    /\ bracesCount' = s.bracesCount

\* Documents: the lines a document of each specification is made of.
BlankLine == <<>>
CommentLine == <<"#note">>
DelimiterLine == <<"###">>
SendLine == <<"SEND", WS, "q1">>
ReceiveLine == <<"RECEIVE", WS, "q2">>
PurgeLine == <<WS, "PURGE", WS, "q3", WS>>
ProfileLine == <<"profile", ":", WS, "p1">>
RegionLine == <<"region", WS, ":", "r1", WS>>
MaxMessagesLine == <<"max-messages", ":", WS, "5">>
VisibilityTimeoutLine == <<"visibility-timeout", ":", WS, "3">>
WaitTimeLine == <<"wait-time", ":", "0">>
Profile2Line == <<"profile", WS, ":", WS, "p2">>
Region2Line == <<"region", ":", WS, "r2">>
MaxMessages3Line == <<"max-messages", WS, ":", "3">>
VisibilityZeroLine == <<"visibility-timeout", ":", WS, "0">>
OpenBraceLine == <<"{">>
CloseBraceLine == <<"}">>
MemberLine == <<"\"x\"", ":", WS, "1">>
ObjectLine == <<"{", "\"x\"", ":", "1", "}">>
BraceStringLine == <<"{", "\"x\"", ":", "\"}\"", "}">>
UnknownLine == <<"send", WS, "q1">>
CommentBraceLine == <<"#", WS, "}">>
WaitTimeTextLine == <<"wait-time", ":", WS, "soon">>

\* blocks, delimiters and overrides
CoreLines ==
    {BlankLine, DelimiterLine, SendLine, ReceiveLine, PurgeLine, ProfileLine,
     RegionLine, ObjectLine, UnknownLine}

\* the numeric parameters
ParamLines ==
    {DelimiterLine, SendLine, ReceiveLine, PurgeLine, ProfileLine,
     MaxMessagesLine, VisibilityTimeoutLine, WaitTimeLine, ObjectLine}

\* JSON bodies
JsonLines ==
    {CommentLine, SendLine, ProfileLine, OpenBraceLine, CloseBraceLine,
     MemberLine, ObjectLine, BraceStringLine}

\* parameter lines inside and outside a JSON body
BodyLines ==
    {CommentLine, SendLine, OpenBraceLine, CloseBraceLine, ProfileLine,
     RegionLine, MaxMessagesLine, VisibilityTimeoutLine, WaitTimeLine}

\* parameter lines that set one field to two values
RepeatLines ==
    {CommentLine, SendLine, ReceiveLine, OpenBraceLine, ProfileLine,
     Profile2Line, RegionLine, Region2Line, MaxMessagesLine, MaxMessages3Line}

\* one or several `{` blocks under one header
BlockLines ==
    {CommentLine, SendLine, OpenBraceLine, CloseBraceLine, MemberLine,
     BraceStringLine}

\* documents shown in the outline
OutlineLines ==
    {SendLine, ReceiveLine, PurgeLine, ProfileLine, MaxMessagesLine,
     WaitTimeTextLine, OpenBraceLine, CloseBraceLine, CommentBraceLine}

\* documents whose commands are run
RunLines ==
    {SendLine, ObjectLine, ReceiveLine, VisibilityZeroLine, PurgeLine,
     ProfileLine}

\* documents parsed one after the other: they end with a body open, with a
\* parsed body, without a command, with a command open; the last one has
\* lines that act only on a command or a body left open
CallDocuments ==
    {<<SendLine, ObjectLine, CommentLine>>,
     <<SendLine, OpenBraceLine, CloseBraceLine>>,
     <<ObjectLine>>,
     <<SendLine, ProfileLine>>,
     <<ReceiveLine, SendLine>>,
     <<CloseBraceLine, ProfileLine>>}

\* lines of every kind, well-formed or not
TotalLines ==
    {BlankLine, DelimiterLine, UnknownLine, SendLine, ReceiveLine,
     OpenBraceLine, CloseBraceLine, ObjectLine}

\* Sequences over S of length 1..n (split never returns an empty list).
Documents(S, n) == UNION {[1..k -> S] : k \in 1..n}

Configurations ==
    {<<Unset, Setting(<<"eu-west-1">>)>>,
     <<Setting(<<>>), Unset>>,
     <<Setting(<<"corp">>), Setting(<<>>)>>}

InitLocals ==
    /\ pc = "loop"
    /\ i = 0
    /\ commands = InitScanner.commands
    /\ currentCommand = InitScanner.currentCommand
    /\ commandBodyStartLine = InitScanner.commandBodyStartLine
    /\ commandBodyLines = InitScanner.commandBodyLines
    /\ inJsonBody = InitScanner.inJsonBody
    /\ jsonStartLine = InitScanner.jsonStartLine
    /\ bracesCount = InitScanner.bracesCount

\* the extension host before any provider or handler has run
InitExtension ==
    /\ returned = <<>>
    /\ languageId = "sqs"
    /\ codeLenses = [provided |-> FALSE, lenses |-> <<>>]
    /\ symbols = [provided |-> FALSE, list |-> <<>>]
    /\ runs = <<>>
    /\ awsConfig = Null

\* parseSQSCommands is entered with a document and a configuration
Init ==
    /\ lines \in Documents(CoreLines, MaxLines)
    /\ \E c \in Configurations : cfgProfile = c[1] /\ cfgRegion = c[2]
    /\ InitLocals
    /\ InitExtension

InitParams ==
    /\ lines \in Documents(ParamLines, MaxParamLines)
    /\ cfgProfile = Unset
    /\ cfgRegion = Setting(<<"eu-west-1">>)
    /\ InitLocals
    /\ InitExtension

InitTotal ==
    /\ lines \in Documents(TotalLines, MaxTotalLines)
    /\ cfgProfile = Unset
    /\ cfgRegion = Unset
    /\ InitLocals
    /\ InitExtension

InitCalls ==
    /\ lines \in CallDocuments
    /\ cfgProfile = Unset
    /\ cfgRegion = Setting(<<"eu-west-1">>)
    /\ InitLocals
    /\ InitExtension

InitBody ==
    /\ lines \in Documents(BodyLines, MaxBodyLines)
    /\ cfgProfile = Unset
    /\ cfgRegion = Unset
    /\ InitLocals
    /\ InitExtension

InitRepeat ==
    /\ lines \in Documents(RepeatLines, MaxRepeatLines)
    /\ cfgProfile = Unset
    /\ cfgRegion = Unset
    /\ InitLocals
    /\ InitExtension

InitBlocks ==
    /\ lines \in Documents(BlockLines, MaxBlockLines)
    /\ cfgProfile = Unset
    /\ cfgRegion = Unset
    /\ InitLocals
    /\ InitExtension

InitJson ==
    /\ lines \in Documents(JsonLines, MaxJsonLines)
    /\ cfgProfile = Setting(<<"corp">>)
    /\ cfgRegion = Unset
    /\ InitLocals
    /\ InitExtension

\* const line = lines[i].trim()
CurLine == Trim(lines[i + 1])

InLoop == pc = "loop" /\ i < Len(lines)

Advance ==
    /\ i' = i + 1
    /\ UNCHANGED <<lines, cfgProfile, cfgRegion, pc, returned, extensionVars>>

\* if (line === '' || line.startsWith('#')) continue
SkipLine ==
    /\ InLoop
    /\ IsSkipped(CurLine)
    /\ Advance
    /\ UNCHANGED <<commands, currentCommand, commandBodyStartLine,
                   commandBodyLines, inJsonBody, jsonStartLine, bracesCount>>

\* if (commandMatch)
HeaderLine ==
    /\ InLoop
    /\ ~IsSkipped(CurLine)
    /\ CommandBlockMatch(CurLine)
    /\ Assign(OnHeader(Scanner, i, CurLine, cfgProfile, cfgRegion))
    /\ Advance

\* the parameter branch taken whenever a command is open
CommandLineInBody ==
    /\ InLoop
    /\ ~IsSkipped(CurLine)
    /\ ~CommandBlockMatch(CurLine)
    /\ currentCommand # Null
    /\ Assign(OnCommandLine(Scanner, i, CurLine))
    /\ Advance

\* else if (currentCommand && !inJsonBody)
CommandLine ==
    /\ InLoop
    /\ ~IsSkipped(CurLine)
    /\ ~CommandBlockMatch(CurLine)
    /\ currentCommand # Null /\ ~inJsonBody
    /\ Assign(OnCommandLine(Scanner, i, CurLine))
    /\ Advance

\* the JSON body branch without the try/catch around JSON.parse: a failed
\* parse leaves the function by an exception
JsonBodyLineThrows ==
    /\ InLoop
    /\ ~IsSkipped(CurLine)
    /\ ~CommandBlockMatch(CurLine)
    /\ ~(currentCommand # Null /\ ~inJsonBody)
    /\ inJsonBody
    /\ LET s == OnJsonBodyLine(Scanner, CurLine)
       IN s.inJsonBody \/ s.currentCommand.messageBody # NoBody
    /\ Assign(OnJsonBodyLine(Scanner, CurLine))
    /\ Advance

\* else if (inJsonBody)
JsonBodyLine ==
    /\ InLoop
    /\ ~IsSkipped(CurLine)
    /\ ~CommandBlockMatch(CurLine)
    /\ ~(currentCommand # Null /\ ~inJsonBody)
    /\ inJsonBody
    /\ Assign(OnJsonBodyLine(Scanner, CurLine))
    /\ Advance

\* no branch of the loop body applies
IdleLine ==
    /\ InLoop
    /\ ~IsSkipped(CurLine)
    /\ ~CommandBlockMatch(CurLine)
    /\ ~(currentCommand # Null /\ ~inJsonBody)
    /\ ~inJsonBody
    /\ Advance
    /\ UNCHANGED <<commands, currentCommand, commandBodyStartLine,
                   commandBodyLines, inJsonBody, jsonStartLine, bracesCount>>

\* the loop ends; the open command, if any, is emitted; return commands
EndOfDocument ==
    /\ pc = "loop"
    /\ i = Len(lines)
    /\ Assign(OnEndOfDocument(Scanner, Len(lines)))
    /\ pc' = "done"
    /\ returned' = Append(returned, [text |-> lines,
                                     defaultProfile |-> cfgProfile,
                                     defaultRegion |-> cfgRegion,
                                     result |-> commands'])
    /\ UNCHANGED <<lines, cfgProfile, cfgRegion, i, extensionVars>>

\* the locals as if they were declared at module level: a call starts from
\* what the previous call left
InvokeKeepsLocals ==
    /\ pc = "done"
    /\ Len(returned) < MaxCalls
    /\ lines' \in CallDocuments
    /\ pc' = "loop"
    /\ i' = 0
    /\ UNCHANGED <<commands, currentCommand, commandBodyStartLine,
                   commandBodyLines, inJsonBody, jsonStartLine, bracesCount>>
    /\ UNCHANGED <<cfgProfile, cfgRegion, returned, extensionVars>>

\* parseSQSCommands is called again, on any text: the locals are declared
\* inside the function and start afresh
Invoke ==
    /\ pc = "done"
    /\ Len(returned) < MaxCalls
    /\ lines' \in CallDocuments
    /\ pc' = "loop"
    /\ i' = 0
    /\ Assign(InitScanner)
    /\ UNCHANGED <<cfgProfile, cfgRegion, returned, extensionVars>>

Next ==
    \/ SkipLine
    \/ HeaderLine
    \/ CommandLine
    \/ JsonBodyLine
    \/ IdleLine
    \/ EndOfDocument

Spec == Init /\ [][Next]_vars

SpecParams == InitParams /\ [][Next]_vars

SpecJson == InitJson /\ [][Next]_vars

SpecBody == InitBody /\ [][Next]_vars

SpecRepeat == InitRepeat /\ [][Next]_vars

SpecBlocks == InitBlocks /\ [][Next]_vars

NextCalls == Next \/ Invoke

\* the parser called repeatedly, as the providers do on every text change
SpecCalls == InitCalls /\ [][NextCalls]_vars

\* the function runs to completion: nothing suspends the synchronous loop
SpecTotal == InitTotal /\ [][Next]_vars /\ WF_vars(Next)

----------------------------------------------------------------------------
(* The state machine computes parseSQSCommands                              *)

TypeOK ==
    /\ pc \in {"loop", "done"}
    /\ i \in 0..Len(lines)
    /\ Scanner = IF pc = "done"
                 THEN [ScanPrefix(lines, i, cfgProfile, cfgRegion) EXCEPT
                          !.commands = parseSQSCommands(lines, cfgProfile, cfgRegion)]
                 ELSE ScanPrefix(lines, i, cfgProfile, cfgRegion)

----------------------------------------------------------------------------
(* The extension: the CodeLens provider and the three command handlers      *)

parserVars == <<lines, cfgProfile, cfgRegion, pc, i, commands, currentCommand,
                commandBodyStartLine, commandBodyLines, inJsonBody,
                jsonStartLine, bracesCount, returned>>

\* vscode.commands.registerCommand(id, handler) in activate
Registered ==
    [handler \in {"sendCommand", "receiveCommand", "purgeCommand"} |->
        CASE handler = "sendCommand" -> "sqs-client.sendSQSCommand"
          [] handler = "receiveCommand" -> "sqs-client.receiveSQSMessages"
          [] handler = "purgeCommand" -> "sqs-client.purgeSQSQueue"]

\* the handler registered under an id
HandlerOf(id) == CHOOSE handler \in DOMAIN Registered : Registered[handler] = id

\* the switch with the ids of the former extension name
CommandIdLegacy(commandType) ==
    CASE commandType = "SEND" -> "aws-sqs-client.sendSQSCommand"
      [] commandType = "RECEIVE" -> "aws-sqs-client.receiveSQSMessages"
      [] commandType = "PURGE" -> "aws-sqs-client.purgeSQSQueue"
      [] OTHER -> ""

\* switch (command.type)
CommandId(commandType) ==
    CASE commandType = "SEND" -> "sqs-client.sendSQSCommand"
      [] commandType = "RECEIVE" -> "sqs-client.receiveSQSMessages"
      [] commandType = "PURGE" -> "sqs-client.purgeSQSQueue"
      [] OTHER -> ""

\* new vscode.CodeLens(commandRange, {title, command, arguments})
CodeLens(command) ==
    [line |-> command.range.start,
     character |-> 0,
     title |-> "Send Request",
     command |-> CommandId(command.type),
     arguments |-> <<command>>]

provideCodeLenses(language, doc, cp, cr) ==
    IF language # "sqs" THEN <<>>
    ELSE LET parsed == parseSQSCommands(doc, cp, cr)
         IN [k \in 1..Len(parsed) |-> CodeLens(parsed[k])]

\* a || b on an optional number: undefined and 0 are falsy
OrNumber(value, fallback) ==
    IF value = Undefined \/ value = 0 THEN fallback ELSE value

\* a parameter with a default value: the default replaces undefined only
DefaultParam(value, fallback) == IF value = Undefined THEN fallback ELSE value

\* the constructor creating the client before it writes AWS.config: the
\* client holds what the previous constructor left
SQSServiceBeforeConfig(profile, region) == awsConfig

\* new SQSService(profile, region): the client holds the configuration it was
\* built under
SQSService(profile, region) == [profile |-> profile, region |-> region]

\* JSON.stringify of a parsed body: the value is held as its compact text
JsonStringify(value) == SelectSeq(value, LAMBDA t : t # WS)

\* messageAttributes || {}
EmptyAttributes == <<"{", "}">>

sendMessage(service, queueUrl, messageBody, messageAttributes) ==
    [op |-> "sendMessage",
     client |-> service,
     QueueUrl |-> queueUrl,
     MessageBody |-> JsonStringify(messageBody),
     MessageAttributes |-> IF messageAttributes = NoBody THEN EmptyAttributes
                           ELSE messageAttributes]

receiveMessages(service, queueUrl, maxMessages, visibilityTimeout, waitTimeSeconds) ==
    [op |-> "receiveMessage",
     client |-> service,
     QueueUrl |-> queueUrl,
     MaxNumberOfMessages |-> DefaultParam(maxMessages, 10),
     VisibilityTimeout |-> DefaultParam(visibilityTimeout, 30),
     WaitTimeSeconds |-> DefaultParam(waitTimeSeconds, 0)]

purgeQueue(service, queueUrl) ==
    [op |-> "purgeQueue", client |-> service, QueueUrl |-> queueUrl]

\* one invocation of a handler: where it stands, what it has shown, the
\* client it built and the request it made
NewRun(handler, command) ==
    [handler |-> handler,
     command |-> command,
     at |-> "running",
     shown |-> <<>>,
     confirmation |-> "",
     service |-> Null,
     call |-> Null,
     failed |-> FALSE]

\* showInformationMessage before the request ("information") and after it
\* ("success"), showWarningMessage, showErrorMessage, createOutputPanel
Show(run, what) == [run EXCEPT !.shown = Append(@, what)]
Return(run) == [run EXCEPT !.at = "returned"]
Await(run, request) == [run EXCEPT !.at = "awaiting", !.call = request]
Construct(run) ==
    [run EXCEPT !.service = SQSService(run.command.profile, run.command.region)]

\* a handler without try/catch: the failure leaves the handler
Uncaught(run) == [run EXCEPT !.failed = TRUE, !.at = "thrown"]

\* catch (error) { showErrorMessage(...) }: the constructor or the awaited
\* request has thrown
Caught(run) == Return(Show([run EXCEPT !.failed = TRUE], "error"))

\* sendCommand without the test of the message body
sendCommandUnchecked(command, constructs) ==
    LET started == Show(NewRun("sendCommand", command), "information")
        built == Construct(started)
    IN IF ~constructs THEN Caught(started)
       ELSE Await(built, sendMessage(built.service, command.queueUrl,
                                     command.messageBody,
                                     command.messageAttributes))

\* sendCommand up to its await
sendCommand(command, constructs) ==
    LET started == Show(NewRun("sendCommand", command), "information")
        built == Construct(started)
    IN IF ~constructs THEN Caught(started)
       ELSE IF command.messageBody = NoBody THEN Return(Show(built, "error"))
       ELSE Await(built, sendMessage(built.service, command.queueUrl,
                                     command.messageBody,
                                     command.messageAttributes))

\* receiveCommand up to its await
receiveCommand(command, constructs) ==
    LET started == Show(NewRun("receiveCommand", command), "information")
        built == Construct(started)
    IN IF ~constructs THEN Caught(started)
       ELSE Await(built, receiveMessages(built.service, command.queueUrl,
                                         OrNumber(command.maxMessages, 10),
                                         OrNumber(command.visibilityTimeout, 30),
                                         OrNumber(command.waitTimeSeconds, 0)))

\* purgeCommand up to the confirmation dialog
purgeCommand(command) ==
    [Show(NewRun("purgeCommand", command), "warning") EXCEPT !.at = "confirming"]

\* purgeCommand going on whatever the dialog returned
purgeCommandUnasked(run, answer, constructs) ==
    LET started == Show([run EXCEPT !.confirmation = answer], "information")
        built == Construct(started)
    IN IF ~constructs THEN Caught(started)
       ELSE Await(built, purgeQueue(built.service, run.command.queueUrl))

\* purgeCommand from the answer of the dialog to its second await
purgeCommandAnswered(run, answer, constructs) ==
    LET answered == [run EXCEPT !.confirmation = answer]
        started == Show(answered, "information")
        built == Construct(started)
    IN IF answer # "Yes" THEN Return(answered)
       ELSE IF ~constructs THEN Caught(started)
       ELSE Await(built, purgeQueue(built.service, run.command.queueUrl))

\* a handler after its request has settled
Settled(run, fulfilled) ==
    IF ~fulfilled THEN Caught(run)
    ELSE IF run.handler = "purgeCommand" THEN Return(Show(run, "success"))
    ELSE Return(Show(Show(run, "panel"), "success"))

\* the handler registered under id, run up to its first await
Started(id, command, constructs) ==
    CASE HandlerOf(id) = "sendCommand" -> sendCommand(command, constructs)
      [] HandlerOf(id) = "receiveCommand" -> receiveCommand(command, constructs)
      [] HandlerOf(id) = "purgeCommand" -> purgeCommand(command)

\* AWS.config after a handler step: the constructor writes it
ConfigAfter(run) == IF run.service = Null THEN awsConfig ELSE run.service

InitRun ==
    /\ lines \in Documents(RunLines, MaxRunLines)
    /\ cfgProfile = Unset
    /\ cfgRegion = Unset
    /\ InitLocals
    /\ returned = <<>>
    /\ languageId \in {"sqs", "plaintext"}
    /\ codeLenses = [provided |-> FALSE, lenses |-> <<>>]
    /\ symbols = [provided |-> FALSE, list |-> <<>>]
    /\ runs = <<>>
    /\ awsConfig = Null

\* the editor asks for the lenses of the document
ProvideCodeLenses ==
    /\ ~codeLenses.provided
    /\ codeLenses' = [provided |-> TRUE,
                      lenses |-> provideCodeLenses(languageId, lines,
                                                   cfgProfile, cfgRegion)]
    /\ UNCHANGED <<parserVars, languageId, symbols, runs, awsConfig>>

\* the user clicks a lens: executeCommand(lens.command, ...lens.arguments)
Execute ==
    /\ codeLenses.provided
    /\ Len(runs) < MaxRuns
    /\ \E k \in 1..Len(codeLenses.lenses) : \E constructs \in BOOLEAN :
          LET lens == codeLenses.lenses[k]
              run == Started(lens.command, lens.arguments[1], constructs)
          IN /\ lens.command \in {Registered[h] : h \in DOMAIN Registered}
             /\ runs' = Append(runs, run)
             /\ awsConfig' = ConfigAfter(run)
    /\ UNCHANGED <<parserVars, languageId, symbols, codeLenses>>

\* the confirmation dialog is answered or dismissed
Answer ==
    \E r \in 1..Len(runs) : \E answer \in {"Yes", "No", "dismissed"} :
    \E constructs \in BOOLEAN :
        LET run == purgeCommandAnswered(runs[r], answer, constructs)
        IN /\ runs[r].at = "confirming"
           /\ runs' = [runs EXCEPT ![r] = run]
           /\ awsConfig' = ConfigAfter(run)
           /\ UNCHANGED <<parserVars, languageId, symbols, codeLenses>>

\* the request of a handler is fulfilled or rejected
Settle ==
    \E r \in 1..Len(runs) : \E fulfilled \in BOOLEAN :
        /\ runs[r].at = "awaiting"
        /\ runs' = [runs EXCEPT ![r] = Settled(runs[r], fulfilled)]
        /\ UNCHANGED <<parserVars, languageId, symbols, codeLenses, awsConfig>>

NextRun ==
    \/ ProvideCodeLenses
    \/ Execute
    \/ Answer
    \/ Settle

SpecRun == InitRun /\ [][NextRun]_vars

----------------------------------------------------------------------------
(* The outline: the document symbol provider                                *)

\* Number.prototype.toString
NumberToString(n) ==
    CASE n = 0 -> "0"
      [] n = 3 -> "3"
      [] n = 5 -> "5"

\* value?.toString() || ''
NumberDetail(value) == IF value = Undefined THEN <<>> ELSE <<NumberToString(value)>>

RECURSIVE LastSegment(_)
\* queueUrl.split('/').pop()
LastSegment(url) ==
    IF \E p \in 1..Len(url) : url[p] = "/"
    THEN LastSegment(Tail(url))
    ELSE url

\* line.startsWith('key:')
StartsWithKey(key, line) == Len(line) >= 2 /\ line[1] = key /\ line[2] = ":"

\* !line || line === '###' || line.startsWith('#')
IsSkippedInOutline(line) == line = <<>> \/ IsDelimiter(line) \/ StartsWithHash(line)

getSymbolKindForCommandType(commandType) ==
    CASE commandType = "SEND" -> "Function"
      [] commandType = "RECEIVE" -> "Event"
      [] commandType = "PURGE" -> "Interface"
      [] OTHER -> "Module"

\* the child symbol of one parameter line
addParameterSymbol(name, detail, line, kind) ==
    [name |-> name, detail |-> detail, kind |-> kind,
     range |-> [start |-> line, end |-> line]]

RECURSIVE JsonEndLine(_, _, _, _, _)
\* the loop over j: the first line after the start line at which the count of
\* braces is 0, the start line if there is none up to endLine
JsonEndLine(doc, start, j, endLine, count) ==
    IF j > endLine THEN start
    ELSE LET c == count + BraceDelta(doc[j + 1])
         IN IF c = 0 THEN j ELSE JsonEndLine(doc, start, j + 1, endLine, c)

\* the child symbol of a JSON body
JsonBodySymbol(start, end) ==
    [name |-> "Message Body", detail |-> <<"JSON Payload">>, kind |-> "Object",
     range |-> [start |-> start, end |-> end]]

RECURSIVE addParameterSymbols(_, _, _, _)
\* the children pushed by the loop from line k to endLine
addParameterSymbols(command, doc, k, endLine) ==
    IF k > endLine THEN <<>>
    ELSE
      LET line == Trim(doc[k + 1])
          rest == addParameterSymbols(command, doc, k + 1, endLine)
          jsonEndLine == JsonEndLine(doc, k, k + 1, endLine, 1)
      IN IF IsSkippedInOutline(line) THEN rest
         ELSE IF StartsWithKey("profile", line)
         THEN <<addParameterSymbol("Profile", command.profile, k, "Constant")>> \o rest
         ELSE IF StartsWithKey("region", line)
         THEN <<addParameterSymbol("Region", command.region, k, "Constant")>> \o rest
         ELSE IF StartsWithKey("max-messages", line)
         THEN <<addParameterSymbol("Max Messages", NumberDetail(command.maxMessages),
                                   k, "Number")>> \o rest
         ELSE IF StartsWithKey("visibility-timeout", line)
         THEN <<addParameterSymbol("Visibility Timeout",
                                   NumberDetail(command.visibilityTimeout),
                                   k, "Number")>> \o rest
         ELSE IF StartsWithKey("wait-time", line)
         THEN <<addParameterSymbol("Wait Time", NumberDetail(command.waitTimeSeconds),
                                   k, "Number")>> \o rest
         ELSE IF StartsWithBrace(line) /\ command.type = "SEND"
         THEN <<JsonBodySymbol(k, jsonEndLine)>>
                 \o addParameterSymbols(command, doc, jsonEndLine + 1, endLine)
         ELSE rest

\* new vscode.DocumentSymbol(name, detail, kind, range, selectionRange) with
\* its children
DocumentSymbol(command, doc) ==
    [name |-> <<command.type, WS>> \o LastSegment(command.queueUrl),
     detail |-> <<"Queue:", WS>> \o command.queueUrl,
     kind |-> getSymbolKindForCommandType(command.type),
     range |-> command.range,
     selectionLine |-> command.range.start,
     children |-> addParameterSymbols(command, doc, command.range.start + 1,
                                      command.range.end)]

provideDocumentSymbols(language, doc, cp, cr) ==
    IF language # "sqs" THEN <<>>
    ELSE LET parsed == parseSQSCommands(doc, cp, cr)
         IN [k \in 1..Len(parsed) |-> DocumentSymbol(parsed[k], doc)]

InitOutline ==
    /\ lines \in Documents(OutlineLines, MaxOutlineLines)
    /\ cfgProfile = Unset
    /\ cfgRegion = Unset
    /\ InitLocals
    /\ returned = <<>>
    /\ languageId \in {"sqs", "plaintext"}
    /\ codeLenses = [provided |-> FALSE, lenses |-> <<>>]
    /\ symbols = [provided |-> FALSE, list |-> <<>>]
    /\ runs = <<>>
    /\ awsConfig = Null

\* the editor asks for the symbols of the document
ProvideDocumentSymbols ==
    /\ ~symbols.provided
    /\ symbols' = [provided |-> TRUE,
                   list |-> provideDocumentSymbols(languageId, lines,
                                                   cfgProfile, cfgRegion)]
    /\ UNCHANGED <<parserVars, languageId, codeLenses, runs, awsConfig>>

NextOutline == ProvideDocumentSymbols

SpecOutline == InitOutline /\ [][NextOutline]_vars

----------------------------------------------------------------------------
(* Vocabulary of the claims: the document as the reader sees it             *)

Done == pc = "done"
LineCount == Len(lines)
LineIndices == 0..(LineCount - 1)

\* line j of the document, trimmed
Line(j) == Trim(lines[j + 1])

\* the scanner just before line j is visited
Before(j) == ScanPrefix(lines, j, cfgProfile, cfgRegion)
InCommandBefore(j) == Before(j).currentCommand # Null /\ ~Before(j).inJsonBody
InJsonBodyBefore(j) == Before(j).inJsonBody

IsHeaderAt(j) == ~IsSkipped(Line(j)) /\ CommandBlockMatch(Line(j))
IsDelimiterAt(j) == IsDelimiter(Line(j))
HeaderIndices == {j \in LineIndices : IsHeaderAt(j)}

\* the position, in top-to-bottom order, of the header at line h
Ordinal(h) == Cardinality({g \in HeaderIndices : g <= h})

\* the first header after line h, or the line count
NextHeader(h) ==
    LET later == {g \in HeaderIndices : g > h}
    IN IF later = {} THEN LineCount
       ELSE CHOOSE g \in later : \A g2 \in later : g <= g2

\* d is the `###` line that terminates the block of the header at line h:
\* the first one after h, before any other header, met in state InCommand
BlockDelimiter(h, d) ==
    /\ h \in HeaderIndices
    /\ d \in LineIndices
    /\ h < d /\ d < NextHeader(h)
    /\ IsDelimiterAt(d)
    /\ \A j \in (h + 1)..(d - 1) : ~IsDelimiterAt(j)
    /\ InCommandBefore(d)

\* the line after the last line of the block of the header at line h
BlockEnd(h) ==
    LET ds == {d \in LineIndices : BlockDelimiter(h, d)}
    IN IF ds = {} THEN NextHeader(h) ELSE CHOOSE d \in ds : TRUE

\* the command emitted for the header at line h
Emitted(h) == commands[Ordinal(h)]
IsEmitted(h) == Ordinal(h) <= Len(commands)

\* the fields of a command other than its range
Fields(c) == [c EXCEPT !.range = NoRange]

----------------------------------------------------------------------------
\* C1: a command block terminated by a `###` line is emitted with range end
\* line equal to the index of that `###` line, whatever follows it.
C1_DelimiterEndsRange ==
    Done => \A h \in HeaderIndices : \A d \in LineIndices :
                BlockDelimiter(h, d) =>
                    IsEmitted(h) /\ Emitted(h).range.end = d

\* C2: the lines that follow a `###` delimiter, up to the next header, change
\* no field of the command the delimiter closed: it is emitted as it stood
\* when the delimiter was reached.
C2_ClosedCommandUnchanged ==
    Done => \A h \in HeaderIndices : \A d \in LineIndices :
                BlockDelimiter(h, d) =>
                    /\ IsEmitted(h)
                    /\ Fields(Emitted(h)) =
                           Fields(finalizeCommand(Before(d).currentCommand, h, d,
                                                  Before(d).commandBodyLines))

----------------------------------------------------------------------------
(* JSON bodies as the reader sees them                                      *)

IsSendHeaderAt(h) == IsHeaderAt(h) /\ CommandBlockType(Line(h)) = "SEND"

\* the JSON text of lines a..b of the document
TextOf(a, b) == Flatten(SubSeq(lines, a + 1, b + 1))

\* the text has as many '{' as '}' characters
Balanced(text) == BraceDelta(text) = 0

\* C3: a SEND header followed by the lines of a well-formed JSON object with
\* balanced braces yields a command whose messageBody is that object,
\* whatever lines follow the object.
C3_JsonBodyRecovered ==
    Done => \A h \in HeaderIndices : \A e \in LineIndices :
                ( /\ IsSendHeaderAt(h)
                  /\ h < e
                  /\ JsonValid(TextOf(h + 1, e))
                  /\ Balanced(TextOf(h + 1, e)) )
                => IsEmitted(h) /\ Emitted(h).messageBody = TextOf(h + 1, e)

\* The block of the header at line h is the header and then body lines only:
\* a `{` line right after the header and no blank, comment or delimiter line
\* up to the next header or the end of the document.
BodyOnlyBlock(h) ==
    /\ IsSendHeaderAt(h)
    /\ h + 1 < NextHeader(h)
    /\ StartsWithBrace(Line(h + 1))
    /\ \A j \in (h + 1)..(NextHeader(h) - 1) : ~IsSkipped(Line(j))

\* the last line of the body that starts at line h + 1: the first line at
\* which the braces of the body balance, or the last line of the block
LexicalBodyEnd(h) ==
    LET closes == {j \in (h + 1)..(NextHeader(h) - 1) : Balanced(TextOf(h + 1, j))}
    IN IF closes = {} THEN NextHeader(h) - 1
       ELSE CHOOSE j \in closes : \A j2 \in closes : j <= j2

LexicalBody(h) == TextOf(h + 1, LexicalBodyEnd(h))

\* the document with the lines of the block of h after the header replaced
\* by a valid one-line body and blank lines
Repaired(h) ==
    [n \in 1..LineCount |->
        IF n - 1 = h + 1 THEN ObjectLine
        ELSE IF n - 1 > h + 1 /\ n - 1 < NextHeader(h) THEN BlankLine
        ELSE lines[n]]

\* every block after the block of h is emitted as in the repaired document
LaterBlocksAsIfValid(h) ==
    LET other == parseSQSCommands(Repaired(h), cfgProfile, cfgRegion)
    IN /\ Len(other) = Len(commands)
       /\ other[Ordinal(h)].messageBody # NoBody
       /\ \A k \in (Ordinal(h) + 1)..Len(commands) : commands[k] = other[k]

\* C4 as stated: a SEND block whose body is brace-unbalanced or is not valid
\* JSON yields its command with messageBody absent, and the later blocks are
\* emitted as if the body had been valid.  Stated for the blocks that are a
\* header followed by body lines only.
C4_MalformedBodyAbsent ==
    Done => \A h \in HeaderIndices :
                ( /\ BodyOnlyBlock(h)
                  /\ \/ ~Balanced(LexicalBody(h))
                     \/ ~JsonValid(LexicalBody(h)) )
                => /\ IsEmitted(h)
                   /\ Emitted(h).messageBody = NoBody
                   /\ LaterBlocksAsIfValid(h)

\* the body lines the scanner has accumulated when the command of the header
\* at line h is sealed
Accumulated(h) == Before(NextHeader(h)).commandBodyLines

\* no prefix of the accumulated body lines is valid JSON
NeverParses(h) ==
    \A n \in 1..Len(Accumulated(h)) :
        ~JsonValid(Flatten(SubSeq(Accumulated(h), 1, n)))

InvalidBodyBlock(h) ==
    IsSendHeaderAt(h) /\ Accumulated(h) # <<>> /\ NeverParses(h)

\* C4 (amended): a SEND block whose accumulated body lines are valid JSON at
\* no line yields exactly one command, for its header, with messageBody
\* absent, and the later blocks are emitted as if the body had been valid.
C4_InvalidBodyAbsent ==
    Done => \A h \in HeaderIndices :
                InvalidBodyBlock(h)
                => /\ Len(commands) = Cardinality(HeaderIndices)
                   /\ Emitted(h).range.start = h
                   /\ Emitted(h).type = "SEND"
                   /\ Emitted(h).messageBody = NoBody
                   /\ LaterBlocksAsIfValid(h)

\* an invalid body is followed by a block whose body is recovered
C4_Witness ==
    /\ Done
    /\ \E h \in HeaderIndices :
          /\ InvalidBodyBlock(h)
          /\ Ordinal(h) < Len(commands)
          /\ commands[Ordinal(h) + 1].messageBody # NoBody

----------------------------------------------------------------------------
LastHeader == CHOOSE h \in HeaderIndices : \A g \in HeaderIndices : g <= h

\* C5: the k-th emitted command is the command of the k-th header line: it
\* has that header's kind and target and starts at that header's line.
C5_HeaderOrder ==
    Done => \A h \in HeaderIndices :
                /\ IsEmitted(h)
                /\ Emitted(h).type = Line(h)[1]
                /\ Emitted(h).queueUrl = <<Line(h)[3]>>
                /\ Emitted(h).range.start = h

\* three headers of three kinds have been emitted
C5_Witness ==
    /\ Done
    /\ Len(commands) = 3
    /\ commands[1].type # commands[2].type
    /\ commands[2].type # commands[3].type
    /\ commands[1].type # commands[3].type

\* C6: a last block with no `###` before the end of input is emitted as the
\* last command, with range end line lines.length - 1.
C6_TrailingCommandEmitted ==
    ( /\ Done
      /\ HeaderIndices # {}
      /\ \A j \in LineIndices : j > LastHeader => ~IsDelimiterAt(j) )
    => /\ Len(commands) = Cardinality(HeaderIndices)
       /\ commands[Len(commands)].type = Line(LastHeader)[1]
       /\ commands[Len(commands)].range.start = LastHeader
       /\ commands[Len(commands)].range.end = LineCount - 1

\* the end of input is reached inside a JSON body, lines after the header
C6_Witness ==
    /\ Done
    /\ inJsonBody
    /\ HeaderIndices # {}
    /\ LastHeader < LineCount - 1
    /\ \A j \in LineIndices : j > LastHeader => ~IsDelimiterAt(j)
    /\ commands[Len(commands)].range.end = LineCount - 1

\* the block of the header at line h has no `profile:` (no `region:`) line
NoProfileLine(h) == \A j \in (h + 1)..(BlockEnd(h) - 1) : ~ProfileMatch(Line(j))
NoRegionLine(h) == \A j \in (h + 1)..(BlockEnd(h) - 1) : ~RegionMatch(Line(j))

IsSupplied(setting) == setting.defined /\ setting.value # <<>>

\* C7: a block with no `profile:` line (resp. no `region:` line) yields a
\* command whose profile (resp. region) is exactly the supplied default;
\* stated here for the defaults that are supplied and not empty.
C7_DefaultSubstituted ==
    Done => \A h \in HeaderIndices :
                /\ (IsSupplied(cfgProfile) /\ NoProfileLine(h))
                   => Emitted(h).profile = cfgProfile.value
                /\ (IsSupplied(cfgRegion) /\ NoRegionLine(h))
                   => Emitted(h).region = cfgRegion.value

\* the document without line j
Without(j) == SubSeq(lines, 1, j) \o SubSeq(lines, j + 2, LineCount)

\* the header of the block line j lies in, when there is one
HeaderOf(j) == CHOOSE h \in HeaderIndices : h < j /\ j < BlockEnd(h)
InBlock(j) == \E h \in HeaderIndices : h < j /\ j < BlockEnd(h)

IsOverrideAt(j) == ProfileMatch(Line(j)) \/ RegionMatch(Line(j))

\* C8: a `profile:` or `region:` line inside a block leaves the profile and
\* the region of every other emitted command as they are in the document
\* without the line; met in state InCommand it changes, in its own command,
\* that one field only.
C8_OverrideIsLocal ==
    Done => \A j \in LineIndices :
                (IsOverrideAt(j) /\ InBlock(j))
                => LET other == parseSQSCommands(Without(j), cfgProfile, cfgRegion)
                       own == Ordinal(HeaderOf(j))
                   IN /\ Len(other) = Len(commands)
                      /\ \A k \in 1..Len(commands) :
                            k # own => /\ commands[k].profile = other[k].profile
                                       /\ commands[k].region = other[k].region
                      /\ (InCommandBefore(j) /\ ProfileMatch(Line(j)))
                         => [Fields(commands[own]) EXCEPT !.profile = <<>>]
                              = [Fields(other[own]) EXCEPT !.profile = <<>>]
                      /\ (InCommandBefore(j) /\ ~ProfileMatch(Line(j)))
                         => [Fields(commands[own]) EXCEPT !.region = <<>>]
                              = [Fields(other[own]) EXCEPT !.region = <<>>]

\* a block overrides its profile and the block after it has the default
C8_Witness ==
    /\ Done
    /\ Len(commands) >= 2
    /\ \E j \in LineIndices :
          /\ ProfileMatch(Line(j)) /\ InBlock(j) /\ InCommandBefore(j)
          /\ Ordinal(HeaderOf(j)) = 1
          /\ commands[1].profile = ProfileValue(Line(j))
          /\ commands[2].profile # ProfileValue(Line(j))

HasNumericField(c) ==
    \/ c.maxMessages # Undefined
    \/ c.visibilityTimeout # Undefined
    \/ c.waitTimeSeconds # Undefined

IsNumericLine(line) ==
    MaxMessagesMatch(line) \/ VisibilityTimeoutMatch(line) \/ WaitTimeMatch(line)

\* C9: maxMessages, visibilityTimeout and waitTimeSeconds are set on RECEIVE
\* commands only, in the open command and in every emitted command.
C9_NumericOnlyForReceive ==
    /\ \A k \in 1..Len(commands) :
          HasNumericField(commands[k]) => commands[k].type = "RECEIVE"
    /\ (currentCommand # Null /\ HasNumericField(currentCommand))
          => currentCommand.type = "RECEIVE"

\* a numeric parameter line is met in state InCommand under a SEND command
\* and under a PURGE command
C9_Witness ==
    /\ Done
    /\ \E j \in LineIndices :
          /\ IsNumericLine(Line(j)) /\ InCommandBefore(j)
          /\ Before(j).currentCommand.type = "SEND"
    /\ \E j \in LineIndices :
          /\ IsNumericLine(Line(j)) /\ InCommandBefore(j)
          /\ Before(j).currentCommand.type = "PURGE"

\* C10: every emitted command has a kind among SEND, RECEIVE and PURGE and a
\* non-empty queueUrl, profile and region, whatever the configured defaults.
C10_RequiredFields ==
    \A k \in 1..Len(commands) :
        /\ commands[k].type \in {"SEND", "RECEIVE", "PURGE"}
        /\ commands[k].queueUrl # <<>>
        /\ commands[k].profile # <<>>
        /\ commands[k].region # <<>>

\* a command is emitted under an empty default profile and an unset default
\* region
C10_Witness ==
    /\ Done
    /\ commands # <<>>
    /\ cfgProfile = Setting(<<>>)
    /\ cfgRegion = Unset

----------------------------------------------------------------------------
\* a step of the loop visits line i and moves to line i + 1; the step after
\* the last line returns
VisitsInOrder ==
    IF pc = "loop" /\ i < Len(lines)
    THEN i' = i + 1 /\ pc' = "loop"
    ELSE i' = i /\ pc = "loop" /\ pc' = "done"

\* C11: for every text the function visits each line once, in order, and
\* returns: no line content stops the scan before the last line.
C11_Terminates ==
    /\ [][VisitsInOrder]_vars
    /\ <>(pc = "done" /\ i = Len(lines))

\* the function has returned from a document with a `###` line and a SEND
\* block whose body lines are not valid JSON
C11_Witness ==
    /\ Done
    /\ \E j \in LineIndices : IsDelimiterAt(j)
    /\ commandBodyLines # <<>>
    /\ ~JsonValid(Flatten(commandBodyLines))
    /\ commands[Len(commands)].type = "SEND"
    /\ commands[Len(commands)].messageBody = NoBody

----------------------------------------------------------------------------
SameArguments(a, b) ==
    /\ a.text = b.text
    /\ a.defaultProfile = b.defaultProfile
    /\ a.defaultRegion = b.defaultRegion

\* C12: two calls of parseSQSCommands on the same text with the same defaults
\* return equal lists, whatever was parsed before or in between.
C12_Deterministic ==
    \A a, b \in 1..Len(returned) :
        SameArguments(returned[a], returned[b])
            => returned[a].result = returned[b].result

\* the same text parsed twice with another document, of another result,
\* parsed in between
C12_Witness ==
    /\ Len(returned) = 3
    /\ SameArguments(returned[1], returned[3])
    /\ returned[1].result # <<>>
    /\ returned[2].text # returned[1].text
    /\ returned[2].result # returned[1].result
    /\ returned[2].result # <<>>

----------------------------------------------------------------------------
\* C16: the parser never sets messageAttributes: it is absent in every
\* emitted command, and in the open command at every line.
C16_NoMessageAttributes ==
    /\ \A k \in 1..Len(commands) : commands[k].messageAttributes = NoBody
    /\ currentCommand # Null => currentCommand.messageAttributes = NoBody

\* a SEND command emitted with its body, and a second command after it
C16_Witness ==
    /\ Done
    /\ Len(commands) >= 2
    /\ commands[1].type = "SEND"
    /\ commands[1].messageBody # NoBody
    /\ commands[1].messageAttributes = NoBody

----------------------------------------------------------------------------
\* a command without its range and its body
Heading(c) == [Fields(c) EXCEPT !.messageBody = NoBody]

\* the document from line h on
From(h) == SubSeq(lines, h + 1, LineCount)

\* the header at line i - 1 has just been processed and a command was open
HeaderMetWhileOpen ==
    /\ pc = "loop"
    /\ i > 0
    /\ IsHeaderAt(i - 1)
    /\ Before(i - 1).currentCommand # Null

\* C17: a header line met while a command is open, in InCommand or in
\* InJsonBody, seals that command with range end = header index - 1 and
\* appends it, empties the body lines, and opens the new command in InCommand;
\* no body line of the previous command reaches the new one, which is emitted
\* as if the document began at its header.
C17_HeaderSealsOpenCommand ==
    /\ HeaderMetWhileOpen =>
          LET before == Before(i - 1)
              sealed == commands[Len(commands)]
          IN /\ Len(commands) = Len(before.commands) + 1
             /\ SubSeq(commands, 1, Len(before.commands)) = before.commands
             /\ sealed.range = [start |-> before.commandBodyStartLine, end |-> i - 2]
             /\ Heading(sealed) = Heading(before.currentCommand)
             /\ commandBodyLines = <<>>
             /\ ~inJsonBody
             /\ currentCommand # Null
             /\ currentCommand.type = CommandBlockType(Line(i - 1))
             /\ currentCommand.queueUrl = CommandBlockUrl(Line(i - 1))
             /\ currentCommand.messageBody = NoBody
    /\ Done =>
          \A h \in HeaderIndices :
              Fields(Emitted(h)) =
                  Fields(parseSQSCommands(From(h), cfgProfile, cfgRegion)[1])

\* a SEND header met inside the unterminated body of the SEND before it; the
\* first command ends on the line before the header and has no body, the
\* second has its own
C17_Witness ==
    /\ Done
    /\ \E h \in HeaderIndices :
          /\ Ordinal(h) = 2
          /\ InJsonBodyBefore(h)
          /\ Before(h).commandBodyLines # <<>>
          /\ Emitted(h).messageBody # NoBody
          /\ commands[1].messageBody = NoBody
          /\ commands[1].range.end = h - 1

----------------------------------------------------------------------------
\* the lines of the JSON body being read: the `{` start line and the lines
\* after it that are neither blank nor comments, trimmed
CurrentBodyLines ==
    LET read == SubSeq(lines, jsonStartLine + 1, i)
        kept == SelectSeq(read, LAMBDA l : ~IsSkipped(Trim(l)))
    IN [k \in 1..Len(kept) |-> Trim(kept[k])]

\* C18: the scanner is in InJsonBody only while the body lines read so far,
\* start line included, hold more `{` than `}`; a body that opens and closes
\* on its start line leaves the scanner in InCommand.
C18_InJsonBodyWhileOpen ==
    (pc = "loop" /\ inJsonBody) => BraceDelta(Flatten(CurrentBodyLines)) > 0

----------------------------------------------------------------------------
\* the raw line is blank, or its first non-blank character is '#'
BlankOrComment(raw) ==
    \/ \A k \in 1..Len(raw) : raw[k] = WS
    \/ \E k \in 1..Len(raw) :
          /\ raw[k] \in {"#", "###", "#note"}
          /\ \A m \in 1..(k - 1) : raw[m] = WS

\* the step that visits a blank or comment line moves to the next line and
\* changes nothing else
SkipsUnchanged ==
    (pc = "loop" /\ i < Len(lines) /\ BlankOrComment(lines[i + 1]))
        => /\ i' = i + 1
           /\ pc' = "loop"
           /\ UNCHANGED <<commands, currentCommand, commandBodyStartLine,
                          commandBodyLines, inJsonBody, jsonStartLine,
                          bracesCount>>

----------------------------------------------------------------------------
\* the step at which the brace depth of the body reaches 0 keeps the command
\* open, in state InCommand, and emits nothing
CloseKeepsCommandOpen ==
    (pc = "loop" /\ i < Len(lines) /\ inJsonBody /\ ~IsHeaderAt(i)
       /\ bracesCount > 0 /\ bracesCount' = 0)
        => /\ ~inJsonBody'
           /\ commands' = commands
           /\ currentCommand' # Null
           /\ Heading(currentCommand') = Heading(currentCommand)

\* a profile line after the closed body sets the profile of that command
ProfileAfterBodyApplies ==
    (pc = "loop" /\ i < Len(lines) /\ currentCommand # Null /\ ~inJsonBody
       /\ commandBodyLines # <<>> /\ ProfileMatch(Line(i)))
        => /\ currentCommand' =
                 [currentCommand EXCEPT !.profile = ProfileValue(Line(i))]
           /\ commands' = commands

\* a command is emitted at a header, at a delimiter or at the end only
SealedOnlyAtBoundary ==
    commands' # commands
        => /\ Len(commands') = Len(commands) + 1
           /\ \/ pc' = "done"
              \/ i < Len(lines) /\ (IsHeaderAt(i) \/ IsDelimiterAt(i))

\* C20: when the brace depth of a body reaches 0 the scanner is back in
\* InCommand with the same command open; parameter lines after the body
\* apply to it, and it is sealed only by the next header, a delimiter or the
\* end of the document.
C20_BodyCloseKeepsCommand ==
    [][CloseKeepsCommandOpen /\ ProfileAfterBodyApplies /\ SealedOnlyAtBoundary]_vars

\* a SEND command emitted with its parsed body and with the profile of a
\* profile line that follows the closed body
C20_Witness ==
    /\ Done
    /\ \E h \in HeaderIndices : \E j \in LineIndices :
          /\ IsSendHeaderAt(h)
          /\ h < j /\ j < NextHeader(h)
          /\ ProfileMatch(Line(j))
          /\ InCommandBefore(j)
          /\ Before(j).currentCommand.messageBody # NoBody
          /\ Before(j).bracesCount = 0
          /\ Emitted(h).profile = ProfileValue(Line(j))
          /\ Emitted(h).profile # OrDefault(cfgProfile, <<"default">>)
          /\ Emitted(h).messageBody # NoBody

----------------------------------------------------------------------------
\* the value the queue service is to receive for an optional number
Requested(value, fallback) == IF value # Undefined THEN value ELSE fallback

\* C13: the call made for a RECEIVE command carries the command's
\* maxMessages, visibilityTimeout and waitTimeSeconds whenever the parser set
\* them, 0 included, and 10, 30 and 0 only for an absent field.
C13_ReceiveParameters ==
    \A r \in 1..Len(runs) :
        (runs[r].handler = "receiveCommand" /\ runs[r].call # Null) =>
            LET command == runs[r].command
                request == runs[r].call
            IN /\ request.op = "receiveMessage"
               /\ request.QueueUrl = command.queueUrl
               /\ request.MaxNumberOfMessages = Requested(command.maxMessages, 10)
               /\ request.VisibilityTimeout = Requested(command.visibilityTimeout, 30)
               /\ request.WaitTimeSeconds = Requested(command.waitTimeSeconds, 0)

----------------------------------------------------------------------------
PurgeRuns == {r \in 1..Len(runs) : runs[r].handler = "purgeCommand"}

\* C14: a PURGE run calls purgeQueue only after the confirmation dialog was
\* shown and answered 'Yes'; after 'No' or a dismissed dialog it has made no
\* call and built no client.
C14_PurgeOnlyConfirmed ==
    /\ \A r \in PurgeRuns :
          /\ runs[r].shown # <<>> /\ runs[r].shown[1] = "warning"
          /\ (runs[r].call # Null \/ runs[r].service # Null) =>
                /\ runs[r].confirmation = "Yes"
                /\ runs[r].at # "confirming"
          /\ runs[r].call # Null =>
                /\ runs[r].call.op = "purgeQueue"
                /\ runs[r].call.QueueUrl = runs[r].command.queueUrl
          /\ (runs[r].at # "confirming" /\ runs[r].confirmation # "Yes") =>
                /\ runs[r].at = "returned"
                /\ runs[r].call = Null
                /\ runs[r].service = Null
                /\ runs[r].shown = <<"warning">>
    /\ (\A r \in 1..Len(runs) :
            r \in PurgeRuns /\ runs[r].confirmation # "Yes") => awsConfig = Null

\* one PURGE run confirmed with 'Yes' whose purgeQueue call was made, and one
\* answered otherwise that has returned
C14_Witness ==
    \E r1, r2 \in PurgeRuns :
        /\ runs[r1].confirmation = "Yes"
        /\ runs[r1].call # Null
        /\ runs[r1].call.op = "purgeQueue"
        /\ runs[r2].confirmation \in {"No", "dismissed"}
        /\ runs[r2].at = "returned"
        /\ runs[r2].call = Null

----------------------------------------------------------------------------
\* the handler that runs a command of a kind
HandlerFor(commandType) ==
    CASE commandType = "SEND" -> "sendCommand"
      [] commandType = "RECEIVE" -> "receiveCommand"
      [] commandType = "PURGE" -> "purgeCommand"

\* C15: provideCodeLenses returns one lens per parsed command, in parser
\* order, at the start line of the command and column 0, with the id under
\* which the handler of the command's kind is registered and the command as
\* its argument; for a document that is not of language 'sqs' it returns none.
C15_OneLensPerCommand ==
    codeLenses.provided =>
        LET parsed == parseSQSCommands(lines, cfgProfile, cfgRegion)
            lenses == codeLenses.lenses
        IN IF languageId # "sqs" THEN lenses = <<>>
           ELSE /\ Len(lenses) = Len(parsed)
                /\ \A k \in 1..Len(parsed) :
                      /\ lenses[k].line = parsed[k].range.start
                      /\ lenses[k].character = 0
                      /\ lenses[k].command = Registered[HandlerFor(parsed[k].type)]
                      /\ lenses[k].arguments = <<parsed[k]>>

\* the lenses of a document with a SEND, a RECEIVE and a PURGE command
C15_Witness ==
    /\ codeLenses.provided
    /\ languageId = "sqs"
    /\ Len(codeLenses.lenses) = 3
    /\ {codeLenses.lenses[k].command : k \in 1..3} =
           {Registered[h] : h \in DOMAIN Registered}
    /\ codeLenses.lenses[3].line = 2

----------------------------------------------------------------------------
\* the header of the command that is open when line j is visited
OpenHeader(j) ==
    CHOOSE h \in HeaderIndices :
        h < j /\ \A g \in HeaderIndices : g < j => g <= h

\* the line at i - 1, just processed, begins with `{` and was met in state
\* InCommand under an open RECEIVE or PURGE command
BraceUnderNonSend ==
    /\ pc = "loop"
    /\ i > 0
    /\ Line(i - 1) # <<>>
    /\ Head(Line(i - 1)) = "{"
    /\ InCommandBefore(i - 1)
    /\ Before(i - 1).currentCommand.type \in {"RECEIVE", "PURGE"}

\* C21: only an open SEND command enters InJsonBody or carries a body: a `{`
\* line under an open RECEIVE or PURGE command leaves the scanner in
\* InCommand with nothing accumulated, and every emitted command with a
\* messageBody is a SEND.
C21_BodyOnlyForSend ==
    /\ inJsonBody => currentCommand # Null /\ currentCommand.type = "SEND"
    /\ (currentCommand # Null /\ currentCommand.type # "SEND") =>
          /\ commandBodyLines = <<>>
          /\ currentCommand.messageBody = NoBody
    /\ BraceUnderNonSend => Scanner = Before(i - 1)
    /\ \A k \in 1..Len(commands) :
          commands[k].messageBody # NoBody => commands[k].type = "SEND"

\* a `{` line met under a RECEIVE command, emitted without a body, and a
\* SEND command of the same document emitted with its body
C21_Witness ==
    /\ Done
    /\ \E j \in LineIndices :
          /\ Line(j) # <<>> /\ Head(Line(j)) = "{"
          /\ InCommandBefore(j)
          /\ Before(j).currentCommand.type = "RECEIVE"
          /\ Emitted(OpenHeader(j)).messageBody = NoBody
    /\ \E k \in 1..Len(commands) :
          commands[k].type = "SEND" /\ commands[k].messageBody # NoBody

----------------------------------------------------------------------------
ParameterKeys ==
    {"profile", "region", "max-messages", "visibility-timeout", "wait-time"}

\* the trimmed line has the form `key: value` for one of the five keys
IsParameterForm(line) ==
    /\ Len(line) >= 3
    /\ line[1] \in ParameterKeys
    /\ \/ line[2] = ":"
       \/ line[2] = WS /\ line[3] = ":"

\* a step on a parameter line in state InJsonBody appends the line to the
\* body lines and leaves the open command and the output list as they were
ParameterInBodyIsText ==
    (pc = "loop" /\ i < Len(lines) /\ inJsonBody /\ IsParameterForm(Line(i)))
        => /\ currentCommand' = currentCommand
           /\ commands' = commands
           /\ commandBodyLines' = Append(commandBodyLines, Line(i))

\* C22: parameter lines are recognised in InCommand only: in InJsonBody a
\* line `profile: X`, `region: X`, `max-messages: N`, `visibility-timeout: N`
\* or `wait-time: N` changes nothing of the open command but its body lines.
C22_ParametersOnlyInCommand == [][ParameterInBodyIsText]_vars

\* a profile line met inside a JSON body; the command is emitted with the
\* default profile
C22_Witness ==
    /\ Done
    /\ \E j \in LineIndices :
          /\ InJsonBodyBefore(j)
          /\ ProfileMatch(Line(j))
          /\ Emitted(OpenHeader(j)).profile = <<"default">>
          /\ Emitted(OpenHeader(j)).profile # ProfileValue(Line(j))

----------------------------------------------------------------------------
\* the trimmed line has the form `KIND TARGET` with KIND exactly SEND,
\* RECEIVE or PURGE
IsHeaderForm(line) ==
    /\ Len(line) >= 3
    /\ line[1] \in {"SEND", "RECEIVE", "PURGE"}
    /\ line[2] = WS
    /\ line[3] # WS

\* the trimmed line, not blank and not a comment, is no header and matches
\* none of the patterns tried for the open command (none at all in Idle)
Unrecognised(line, open) ==
    /\ line # <<>>
    /\ Head(line) \notin HashTokens
    /\ ~IsHeaderForm(line)
    /\ open # Null =>
          /\ ~ProfileMatch(line)
          /\ ~RegionMatch(line)
          /\ open.type = "RECEIVE" =>
                /\ ~MaxMessagesMatch(line)
                /\ ~VisibilityTimeoutMatch(line)
                /\ ~WaitTimeMatch(line)
          /\ open.type = "SEND" => Head(line) # "{"

\* a step on an unrecognised line in Idle or InCommand only moves on
UnrecognisedIgnored ==
    (pc = "loop" /\ i < Len(lines) /\ ~inJsonBody
       /\ Unrecognised(Line(i), currentCommand))
        => /\ i' = i + 1
           /\ UNCHANGED <<commands, currentCommand, commandBodyStartLine,
                          commandBodyLines, inJsonBody, jsonStartLine,
                          bracesCount>>

\* C23: a line that matches no recognised pattern in the current state (a
\* header with a kind token other than SEND, RECEIVE, PURGE; a parameter or
\* `{` line before the first header) is ignored in Idle and in InCommand: the
\* output list, the state and the open command stay as they were.
C23_UnrecognisedIgnored == [][UnrecognisedIgnored]_vars

\* a parameter or `{` line met before the first header and a lower-case
\* header met under an open command; one command is emitted
C23_Witness ==
    /\ Done
    /\ Len(commands) = 1
    /\ \E j \in LineIndices :
          /\ Before(j).currentCommand = Null
          /\ ProfileMatch(Line(j)) \/ StartsWithBrace(Line(j))
    /\ \E j \in LineIndices :
          /\ InCommandBefore(j)
          /\ Line(j) = UnknownLine

----------------------------------------------------------------------------
\* the lines of the block of header h, met in state InCommand, that satisfy
\* the test
Setters(h, Matches(_)) ==
    {j \in LineIndices :
        /\ h < j /\ j < NextHeader(h)
        /\ InCommandBefore(j)
        /\ Matches(Line(j))}

Last(S) == CHOOSE j \in S : \A k \in S : k <= j

IsMaxMessagesForm(line) == MaxMessagesMatch(line)
IsProfileForm(line) == ProfileMatch(line)
IsRegionForm(line) == RegionMatch(line)

\* C24: when several parameter lines of one command, met in InCommand, set
\* the same field, the emitted command holds the value of the last of them
\* in document order; the parse completes without an error.
C24_LastValueWins ==
    Done => \A h \in HeaderIndices :
        /\ IsEmitted(h)
        /\ Setters(h, IsProfileForm) # {} =>
              Emitted(h).profile =
                  ProfileValue(Line(Last(Setters(h, IsProfileForm))))
        /\ Setters(h, IsRegionForm) # {} =>
              Emitted(h).region = RegionValue(Line(Last(Setters(h, IsRegionForm))))
        /\ (Emitted(h).type = "RECEIVE" /\ Setters(h, IsMaxMessagesForm) # {}) =>
              Emitted(h).maxMessages =
                  NumberValue("max-messages",
                              Line(Last(Setters(h, IsMaxMessagesForm))))

\* a RECEIVE command with two max-messages lines of different values, emitted
\* with the second, that has a profile line as well
C24_Witness ==
    /\ Done
    /\ \E h \in HeaderIndices :
          /\ Emitted(h).type = "RECEIVE"
          /\ \E j1, j2 \in Setters(h, IsMaxMessagesForm) :
                /\ j1 < j2
                /\ Line(j1) # Line(j2)
                /\ j2 = Last(Setters(h, IsMaxMessagesForm))
                /\ Emitted(h).maxMessages = NumberValue("max-messages", Line(j2))
                /\ Emitted(h).maxMessages # NumberValue("max-messages", Line(j1))
          /\ Setters(h, IsProfileForm) # {}

----------------------------------------------------------------------------
\* the text of the accumulated body lines is a JSON value
BodyLinesParse == JsonValid(Flatten(commandBodyLines))

\* the step emits the open command
Seals == Len(commands') = Len(commands) + 1

\* at the step that seals a SEND command: an absent body with body lines
\* accumulated is parsed then, a body already set is kept as it is
ParseAtSealing ==
    (Seals /\ currentCommand # Null /\ currentCommand.type = "SEND") =>
        LET sealed == commands'[Len(commands')]
        IN /\ Heading(sealed) = Heading(currentCommand)
           /\ IF currentCommand.messageBody # NoBody
              THEN sealed.messageBody = currentCommand.messageBody
              ELSE IF commandBodyLines = <<>>
              THEN sealed.messageBody = NoBody
              ELSE IF BodyLinesParse
              THEN sealed.messageBody = Flatten(commandBodyLines)
              ELSE sealed.messageBody = NoBody

\* C25: whenever a SEND command is sealed with messageBody absent and at
\* least one body line accumulated, the accumulated lines are parsed at that
\* moment, setting messageBody on success and leaving it absent on failure; a
\* messageBody set before sealing is neither parsed again nor replaced.
C25_ParseAtSealing == [][ParseAtSealing]_vars

\* a SEND command sealed by the next header inside its unclosed body, whose
\* body was absent until then and is set in the emitted command
C25_Witness ==
    /\ Done
    /\ \E h \in HeaderIndices :
          /\ NextHeader(h) < LineCount
          /\ InJsonBodyBefore(NextHeader(h))
          /\ Before(NextHeader(h)).currentCommand.messageBody = NoBody
          /\ Emitted(h).type = "SEND"
          /\ Emitted(h).messageBody # NoBody

----------------------------------------------------------------------------
SendRuns == {r \in 1..Len(runs) : runs[r].handler = "sendCommand"}

Shown(r, what) == \E k \in 1..Len(runs[r].shown) : runs[r].shown[k] = what

\* C26: a SEND command run with messageBody absent shows an error message,
\* makes no sendMessage call and creates no response panel.
C26_SendWithoutBody ==
    \A r \in SendRuns :
        runs[r].command.messageBody = NoBody =>
            /\ runs[r].at = "returned"
            /\ runs[r].call = Null
            /\ Shown(r, "error")
            /\ ~Shown(r, "panel")
            /\ runs[r].shown[Len(runs[r].shown)] = "error"

\* a SEND command whose body lines failed to parse has been run, with a
\* client built
C26_Witness ==
    \E r \in SendRuns :
          /\ runs[r].command.messageBody = NoBody
          /\ runs[r].service # Null
          /\ runs[r].at = "returned"
          /\ \E j \in LineIndices :
                /\ j > runs[r].command.range.start
                /\ j <= runs[r].command.range.end
                /\ StartsWithBrace(Line(j))

----------------------------------------------------------------------------
\* C27: in each of the three handlers, when the construction of the client
\* or the queue-service call fails, the handler shows an error message,
\* creates no response panel, shows no success message and returns: the
\* failure does not reach its caller.
C27_FailureIsReported ==
    \A r \in 1..Len(runs) :
        runs[r].failed =>
            /\ runs[r].at = "returned"
            /\ runs[r].shown[Len(runs[r].shown)] = "error"
            /\ ~Shown(r, "panel")
            /\ ~Shown(r, "success")

\* two handlers of different kinds have failed, one when it built its
\* client, the other when its request was rejected
C27_Witness ==
    \E r1, r2 \in 1..Len(runs) :
        /\ runs[r1].handler # runs[r2].handler
        /\ runs[r1].failed
        /\ runs[r1].service = Null
        /\ runs[r2].failed
        /\ runs[r2].call # Null

----------------------------------------------------------------------------
\* the profile and region of the command that triggered run r
OwnConfig(r) ==
    [profile |-> runs[r].command.profile, region |-> runs[r].command.region]

InFlight(r) == runs[r].at \in {"confirming", "awaiting"}

\* C28: runs are independent under interleaving: whatever the order in which
\* handlers in flight start, are answered and settle, each queue-service call
\* is made by a client built from the profile and region of the command that
\* triggered it, although every constructor overwrites AWS.config.
C28_CallUsesOwnClient ==
    \A r \in 1..Len(runs) :
        /\ runs[r].service # Null => runs[r].service = OwnConfig(r)
        /\ runs[r].call # Null => runs[r].call.client = OwnConfig(r)

\* a PURGE run waiting for its answer while a run for a command of another
\* profile built its client; both requests are in flight, the purge client
\* was built last, and AWS.config no longer holds what the other was built
\* from
C28_Witness ==
    /\ Len(runs) = 2
    /\ runs[1].handler = "purgeCommand"
    /\ InFlight(1) /\ InFlight(2)
    /\ runs[1].call # Null /\ runs[2].call # Null
    /\ OwnConfig(1) # OwnConfig(2)
    /\ awsConfig = OwnConfig(1)
    /\ awsConfig # runs[2].call.client

----------------------------------------------------------------------------
\* the header lines of the document: not comments, of the form `KIND TARGET`
HeaderLines == {j \in LineIndices : IsHeaderForm(Line(j))}

\* C29: the number of emitted commands is the number of header lines of the
\* document, wherever they occur, inside an open JSON body included: every
\* header line yields exactly one command, and every command starts at a
\* header line of its own.
C29_OneCommandPerHeader ==
    /\ pc = "loop" =>
          Len(commands) + (IF currentCommand # Null THEN 1 ELSE 0) =
              Cardinality({j \in HeaderLines : j < i})
    /\ Done =>
          /\ Len(commands) = Cardinality(HeaderLines)
          /\ {commands[k].range.start : k \in 1..Len(commands)} = HeaderLines
          /\ \A k \in 1..Len(commands) :
                /\ commands[k].type = Line(commands[k].range.start)[1]
                /\ \A m \in 1..Len(commands) :
                      commands[m].range.start = commands[k].range.start => m = k

\* three commands from three header lines, one of them met inside the open
\* JSON body of the command before it
C29_Witness ==
    /\ Done
    /\ Len(commands) = 3
    /\ \E h \in HeaderLines :
          /\ InJsonBodyBefore(h)
          /\ Before(h).bracesCount > 0

----------------------------------------------------------------------------
\* C30: in every output list each range has start line <= end line <= index
\* of the last document line, and the ranges of consecutive commands are
\* disjoint and increasing: end line of command k < start line of command
\* k + 1.
C30_RangesOrdered ==
    /\ \A k \in 1..Len(commands) :
          /\ 0 <= commands[k].range.start
          /\ commands[k].range.start <= commands[k].range.end
          /\ commands[k].range.end <= Len(lines) - 1
    /\ \A k \in 1..(Len(commands) - 1) :
          commands[k].range.end < commands[k + 1].range.start

\* three commands: one of a single line, followed at once by the next
\* header, and one of several lines
C30_Witness ==
    /\ Done
    /\ Len(commands) = 3
    /\ \E k \in 1..3 : commands[k].range.start = commands[k].range.end
    /\ \E k \in 1..3 : commands[k].range.start < commands[k].range.end
    /\ commands[3].range.end = Len(lines) - 1

----------------------------------------------------------------------------
\* the step stays within the open command
SameCommand ==
    /\ currentCommand # Null /\ currentCommand' # Null
    /\ commandBodyStartLine' = commandBodyStartLine

\* a body that is set stays as it is while its command is open, and is the
\* body of the command when it is emitted
BodyKept ==
    (currentCommand # Null /\ currentCommand.type = "SEND"
        /\ currentCommand.messageBody # NoBody) =>
        /\ SameCommand => currentCommand'.messageBody = currentCommand.messageBody
        /\ Seals => commands'[Len(commands')].messageBody = currentCommand.messageBody

\* C31: within one SEND command a messageBody set by a successful parse is
\* never cleared or replaced afterwards: a second `{` block later in the same
\* command, whose lines are appended to the body lines already accumulated,
\* leaves the first body in place, whether or not the second block is itself
\* valid JSON.
C31_BodySetOnce == [][BodyKept]_vars

\* line j opens a second block under a command whose body is already set
SecondBlockAt(j) ==
    /\ j \in LineIndices /\ j < i
    /\ InCommandBefore(j)
    /\ Before(j).currentCommand.messageBody # NoBody
    /\ StartsWithBrace(Line(j)) /\ ~IsHeaderAt(j)

\* a second block that closed has been read after the first body was set,
\* the accumulated lines hold both blocks, and the first body is in place
C31_Witness ==
    /\ pc = "loop" /\ currentCommand # Null /\ ~inJsonBody
    /\ \E j \in LineIndices :
          /\ SecondBlockAt(j)
          /\ currentCommand.messageBody = Before(j).currentCommand.messageBody
          /\ Len(commandBodyLines) > Len(Before(j).commandBodyLines) + 1
          /\ ~BodyLinesParse

----------------------------------------------------------------------------
\* what the parser returns for the document of the outline
Parsed == parseSQSCommands(lines, cfgProfile, cfgRegion)

NumericNames == {"Max Messages", "Visibility Timeout", "Wait Time"}

\* the field of a command that a numeric child symbol stands for
FieldOf(c, name) ==
    CASE name = "Max Messages" -> c.maxMessages
      [] name = "Visibility Timeout" -> c.visibilityTimeout
      [] name = "Wait Time" -> c.waitTimeSeconds

\* the detail of a child symbol is the decimal text of a value
IsDetailOf(detail, value) ==
    /\ Len(detail) = 1
    /\ detail[1] \in DigitTokens
    /\ ParseInt(detail[1]) = value

\* C32: the outline agrees with the parser on parameters:
\* provideDocumentSymbols produces one top-level symbol per parsed command in
\* parser order, and a child symbol 'Max Messages', 'Visibility Timeout' or
\* 'Wait Time' under a command only if the parser set the corresponding field
\* on that command (so none under SEND or PURGE commands), and the detail of
\* the child is the parsed value.
C32_OutlineParameters ==
    (symbols.provided /\ languageId = "sqs") =>
        /\ Len(symbols.list) = Len(Parsed)
        /\ \A k \in 1..Len(Parsed) :
              /\ symbols.list[k].range = Parsed[k].range
              /\ symbols.list[k].name[1] = Parsed[k].type
              /\ \A n \in 1..Len(symbols.list[k].children) :
                    LET child == symbols.list[k].children[n]
                    IN child.name \in NumericNames =>
                          /\ Parsed[k].type = "RECEIVE"
                          /\ FieldOf(Parsed[k], child.name) # Undefined
                          /\ IsDetailOf(child.detail, FieldOf(Parsed[k], child.name))

----------------------------------------------------------------------------
\* the parser took line a as the start of a JSON body
ParserBodyStart(a) == Before(a + 1).inJsonBody /\ Before(a + 1).jsonStartLine = a

\* the brace depth of the body the parser started at line a reached 0 at
\* line c
ParserBodyEnd(a, c) ==
    /\ c > a
    /\ Before(c).inJsonBody /\ Before(c).jsonStartLine = a
    /\ ~IsSkipped(Line(c)) /\ ~IsHeaderAt(c)
    /\ ~Before(c + 1).inJsonBody

\* C33: the outline agrees with the parser on the JSON body: for every SEND
\* command, the 'Message Body' symbol starts at the line the parser took as
\* the JSON-body start and ends at the line at which the brace depth of the
\* parser reached 0, and its range lies within the range of the command.
C33_OutlineBody ==
    (symbols.provided /\ languageId = "sqs") =>
        \A k \in 1..Len(symbols.list) :
            symbols.list[k].kind = "Function" =>
                \A n \in 1..Len(symbols.list[k].children) :
                    LET child == symbols.list[k].children[n]
                        a == child.range.start
                        b == child.range.end
                    IN child.name = "Message Body" =>
                          /\ symbols.list[k].range.start <= a
                          /\ a <= b
                          /\ b <= symbols.list[k].range.end
                          /\ ParserBodyStart(a)
                          /\ \A c \in LineIndices : ParserBodyEnd(a, c) => b = c

====
